---- MODULE Spec2Model ----
(***************************************************************************)
(* Model of utility/ai_agent.js: module start-up, the script synthesizer   *)
(* (generateTestScript), the script runner (executeTestScript), the repair *)
(* loop (generateAndDebug) and the driver (generateAll).                    *)
(*                                                                         *)
(* A text is a sequence of lines/tokens; the empty text is << >>, which is *)
(* JavaScript's falsy ''.  Every suspension point of the program (an       *)
(* awaited external call) ends one action and begins the next.             *)
(***************************************************************************)
EXTENDS Integers, Sequences, FiniteSets, TLC

VARIABLES
  pc,          \* position of the process: start-up steps, driver, loop, end
  fatal,       \* which start-up condition stopped the process ("none" if none)
  testDir,     \* TRUE when the tests directory exists
  basePrompts, \* framework -> base template text (<< >> until evaluated)
  depIdx,      \* entries of dependencies already handled by installDependencies
  cfgFiles,    \* the set of configuration files present (tsconfig, mocharc)
  cur,         \* index into the call sequence of generateAll
  loopState,   \* framework -> state of its repair loop
  attempt,     \* local attempt of the running generateAndDebug
  success,     \* local success of the running generateAndDebug
  lastError,   \* local lastError of the running generateAndDebug
  result,      \* local result of the running iteration: what the last run returned
  code,        \* framework -> local code of its loop: the script last generated
  pending,     \* the external call the process is suspended on
  files,       \* file name -> content of that file in the tests directory
  genCount,    \* framework -> generation requests issued
  writeCount,  \* framework -> writes of the output file
  execCount,   \* framework -> executions issued
  succAt,      \* framework -> attempt number whose execution succeeded (0: none)
  call         \* the last direct call of executeTestScript (RunnerSpec)

vars == <<pc, fatal, testDir, basePrompts, depIdx, cfgFiles, cur, loopState,
          attempt, success, lastError, result, code, pending, files, genCount,
          writeCount, execCount, succAt, call>>

----------------------------------------------------------------------------
(* Bounds of the model *)

\* number of distinct standard-error texts an external run may produce
NumErrors == 2
\* number of distinct responses the generative service may return
NumResponses == 2
\* longest response (in parts) handed to the synthesizer on its own
MaxParts == 2
\* longest text or code (in lines) of such a part
MaxLines == 2
\* largest directory tree (in files and directories) handed to the scanner
MaxNodes == 3

----------------------------------------------------------------------------
(* Program constants *)

MAX_ATTEMPTS == 3

Frameworks == {"PLAYWRIGHT", "TESTCAFE", "SELENIUM"}

\* one file name shared by every framework
OUTPUT_FILES_OneName == [f \in Frameworks |-> "google_navigation.ts"]

OUTPUT_FILES ==
  [f \in Frameworks |->
     CASE f = "PLAYWRIGHT" -> "google_navigation.playwright.spec.ts"
       [] f = "TESTCAFE"   -> "google_navigation.testcafe.ts"
       [] f = "SELENIUM"   -> "google_navigation.selenium.spec.cjs"]

\* the keys of dependencies, in the order Object.entries yields them
dependencies == <<"PLAYWRIGHT", "SELENIUM", "TESTCAFE", "APPIUM">>

userPrompt == <<"Navigate to https://www.webpagetest.org/ and handle any popups,",
                "wait for 2 seconds,",
                "then navigate to thoughtworks.com and wait for 2 seconds,",
                "then close the browser">>

NoFile == <<"<absent>">>
None == [kind |-> "none"]

----------------------------------------------------------------------------
(* Texts *)

\* s occurs in t as a contiguous run of lines
Contains(t, s) ==
  \E i \in 0..(Len(t) - Len(s)) : \A j \in 1..Len(s) : t[i + j] = s[j]

RECURSIVE Flatten(_)
Flatten(ss) == IF ss = << >> THEN << >> ELSE Head(ss) \o Flatten(Tail(ss))

EmptyLine == << >>

----------------------------------------------------------------------------
(* Project context scanner: getProjectContext *)

\* what lies beneath the project root: each item has a name, a kind and,
\* for a directory, its items in the order readdirSync lists them
File(n) == [name |-> n, kind |-> "file"]
ProjectRoot ==
  << [name |-> "node_modules", kind |-> "dir", items |-> <<File("index.ts")>>],
     [name |-> "tests", kind |-> "dir", items |-> <<File("example.spec.ts")>>],
     [name |-> "utility", kind |-> "dir",
      items |-> <<File("ai_agent.js"), File("notes.md")>>],
     File("package.json") >>

\* name.endsWith('.ts') || name.endsWith('.js'), over the names in use
SourceNames == {"index.ts", "example.spec.ts", "ai_agent.js", "a.ts", "b.js"}

\* an exclusion list that forgets the version-control directory
ExcludedDirsNoGit == {"node_modules"}

ExcludedDirs == {"node_modules", ".git"}

\* readDirRecursive: the lines pushed for the items of dir, in listing order;
\* a directory that is not excluded is listed and then descended into
RECURSIVE readDirRecursive(_, _)
readDirRecursive(dir, items) ==
  IF items = << >> THEN << >>
  ELSE LET it == Head(items) IN
    (IF it.kind = "dir" /\ it.name \notin ExcludedDirs
       THEN <<(<<"dir">> \o dir \o <<it.name>>)>>
              \o readDirRecursive(dir \o <<it.name>>, it.items)
       ELSE IF it.kind = "file" /\ it.name \in SourceNames
         THEN <<(<<"file">> \o dir \o <<it.name>>)>>
         ELSE << >>)
    \o readDirRecursive(dir, Tail(items))

getProjectContext == readDirRecursive(<<"root">>, ProjectRoot)

----------------------------------------------------------------------------
(* Prompt builder and script synthesizer: basePrompts, generateTestScript *)

\* the template of one framework, with the manifest embedded
BasePrompt(f, manifest) ==
  << <<"Generate an accurate and fully executable test script for", f>>,
     <<"Project Structure Context:">> >>
  \o manifest
  \o << <<"Current working directory:", "tests">>,
        <<"Target output file:", OUTPUT_FILES[f]>>,
        <<"Include meaningful inline comments to explain each step.">> >>

\* a prompt that carries only the first line of the error
PromptTextSummarised(basePrompt, errorContext) ==
  IF errorContext # << >>
    THEN basePrompt
           \o << EmptyLine,
                 <<"The previous attempt failed with the following error:">> >>
           \o <<Head(errorContext)>>
           \o << <<"Please correct the code and regenerate.">> >>
    ELSE basePrompt

\* promptText of generateTestScript: '' (falsy) leaves the base prompt alone
PromptText(basePrompt, errorContext) ==
  IF errorContext # << >>
    THEN basePrompt
           \o << EmptyLine,
                 <<"The previous attempt failed with the following error:">> >>
           \o errorContext
           \o << <<"Please correct the code and regenerate.">> >>
    ELSE basePrompt

\* the request handed to ai.models.generateContent
Request(f, promptText) ==
  [kind |-> "generateContent", framework |-> f, model |-> "gemini-2.0-flash",
   contents |-> <<promptText, userPrompt>>, tools |-> "codeExecution"]

\* the code-fence delimiter (three backquotes), written as a token
Fence == "<fence>"

\* line.includes(Fence)
IsFence(line) == \E i \in 1..Len(line) : line[i] = Fence

TextPart(lines) == [text |-> lines, executableCode |-> << >>]
CodePart(lines) == [text |-> << >>, executableCode |-> lines]
OtherPart == [text |-> << >>, executableCode |-> << >>]

\* a synthesizer that strips fence lines from executable code as well
PartOutputStripsCode(part) ==
  LET lines == IF part.text # << >> THEN part.text ELSE part.executableCode
      cleaned == SelectSeq(lines, LAMBDA l : ~IsFence(l))
  IN IF lines = << >> THEN << >>
     ELSE IF cleaned = << >> THEN <<EmptyLine>> ELSE cleaned

\* what one part adds to output, as newline-terminated lines
PartOutput(part) ==
  IF part.text # << >>
    THEN LET cleaned == SelectSeq(part.text, LAMBDA l : ~IsFence(l))
         IN IF cleaned = << >> THEN <<EmptyLine>> ELSE cleaned
    ELSE IF part.executableCode # << >>
      THEN part.executableCode
      ELSE << >>

Provenance == <<"// *** This code is generated by AI Agent ***">>

\* the script generateTestScript returns for the parts of a response
Synthesize(parts) ==
  <<Provenance, EmptyLine>> \o Flatten([i \in 1..Len(parts) |-> PartOutput(parts[i])])

\* the responses the generative service may give (parts of candidate 0)
ResponsePool ==
  << << TextPart(<< <<Fence, "typescript">>, <<"test('a')">>, <<Fence>> >>) >>,
     << CodePart(<< <<"test('b')">> >>) >>,
     << >>,
     << TextPart(<< <<"Here is the script">> >>), OtherPart,
        CodePart(<< <<"test('c')">> >>) >>,
     << TextPart(<< <<Fence>> >>) >> >>
Responses == {ResponsePool[i] : i \in 1..NumResponses}

----------------------------------------------------------------------------
(* Script runner: executeTestScript *)

ErrorPool ==
  << << <<"Timeout 30000ms exceeded">> >>,
     << <<"Error: element not visible">>, <<"  at google_navigation">> >>,
     << <<"SyntaxError: Unexpected token">> >>,
     << <<"TypeError: page.goto is not a function">>, <<"  at Context.it">> >> >>
ErrorTexts == {ErrorPool[i] : i \in 1..NumErrors}

Stdout == << <<"1 passed">> >>

\* how the external process may end: it exits with a code, or exec throws
ProcOutcomes ==
  [kind : {"exit"}, exitCode : {0, 1, 2}, stdout : {Stdout},
   stderr : ErrorTexts \cup {<< >>}]
  \cup {[kind |-> "throw", exitCode |-> 0, stdout |-> << >>, stderr |-> << >>]}

FilePaths == {OUTPUT_FILES[f] : f \in Frameworks}

\* the shell command of a framework (undefined for any other identifier)
Command(framework, filePath) ==
  CASE framework = "PLAYWRIGHT" -> <<"npx playwright test", filePath>>
    [] framework = "TESTCAFE"   -> <<"npx testcafe chrome", filePath>>
    [] framework = "SELENIUM"   -> <<"npx mocha", filePath>>

\* the body of the try block: either stdout, or the thrown error
TryRun(framework, filePath, o) ==
  IF framework \notin Frameworks
    THEN [threw |-> TRUE, stdout |-> << >>, stderr |-> << >>,
          message |-> << <<"Unknown framework:", framework>> >>]
    ELSE IF o.kind = "throw"
      THEN [threw |-> TRUE, stdout |-> << >>, stderr |-> << >>,
            message |-> << <<"spawn failed:">> \o Command(framework, filePath) >>]
      ELSE IF o.exitCode # 0
        THEN [threw |-> TRUE, stdout |-> << >>, stderr |-> o.stderr,
              message |-> << <<"Command failed:">> \o Command(framework, filePath) >>
                            \o o.stderr]
        ELSE [threw |-> FALSE, stdout |-> o.stdout, stderr |-> o.stderr,
              message |-> << >>]

\* a catch that prefers the exception message to the captured standard error
executeTestScriptMessageFirst(framework, filePath, o) ==
  LET r == TryRun(framework, filePath, o) IN
    IF r.threw
      THEN [threw |-> FALSE, success |-> FALSE,
            output |-> IF r.message # << >> THEN r.message ELSE r.stderr]
      ELSE [threw |-> FALSE, success |-> TRUE, output |-> r.stdout]

\* executeTestScript: the catch turns every throw into a failed result
executeTestScript(framework, filePath, o) ==
  LET r == TryRun(framework, filePath, o) IN
    IF r.threw
      THEN [threw |-> FALSE, success |-> FALSE,
            output |-> IF r.stderr # << >> THEN r.stderr ELSE r.message]
      ELSE [threw |-> FALSE, success |-> TRUE, output |-> r.stdout]

----------------------------------------------------------------------------
(* Initial state: the process starts; the file system is what an earlier    *)
(* run, if any, left behind.                                                *)

\* a script left in an output file by an earlier run of the program
StaleScript == <<Provenance, EmptyLine, <<"test('stale')">> >>

ConfigFiles == {"tsconfig.json", ".mocharc.json"}

Init ==
  /\ pc = "dotenv"
  /\ fatal = "none"
  /\ testDir \in BOOLEAN
  /\ files \in [FilePaths -> {NoFile, StaleScript}]
  /\ (~testDir => files = [p \in FilePaths |-> NoFile])
  /\ cfgFiles \in SUBSET ConfigFiles
  /\ basePrompts = [f \in Frameworks |-> << >>]
  /\ depIdx = 0
  /\ cur = 0
  /\ loopState = [f \in Frameworks |-> "Idle"]
  /\ attempt = 0
  /\ success = FALSE
  /\ lastError = << >>
  /\ result = None
  /\ code = [f \in Frameworks |-> << >>]
  /\ pending = None
  /\ genCount = [f \in Frameworks |-> 0]
  /\ writeCount = [f \in Frameworks |-> 0]
  /\ execCount = [f \in Frameworks |-> 0]
  /\ succAt = [f \in Frameworks |-> 0]
  /\ call = None

loopVars == <<cur, loopState, attempt, success, lastError, result, code, pending, files,
              genCount, writeCount, execCount, succAt>>

----------------------------------------------------------------------------
(* Start-up: the statements of the module body, in order *)

\* dotenv.config: an error loading the .env file ends the process (exit 1)
LoadEnv ==
  /\ pc = "dotenv"
  /\ \E error \in BOOLEAN :
       IF error THEN pc' = "exited" /\ fatal' = "dotenv"
                ELSE pc' = "apiKey" /\ fatal' = fatal
  /\ UNCHANGED <<testDir, basePrompts, depIdx, cfgFiles, loopVars, call>>

\* a key check that reports the missing key and goes on
AfterKeyCheckWarnOnly(present) == "testdir"

\* where the process goes after reading GOOGLE_API_KEY: the throw ends it
AfterKeyCheck(present) == IF present THEN "testdir" ELSE "aborted"

CheckApiKey ==
  /\ pc = "apiKey"
  /\ \E present \in BOOLEAN :
       /\ pc' = AfterKeyCheck(present)
       /\ fatal' = IF present THEN fatal ELSE "apiKey"
  /\ UNCHANGED <<testDir, basePrompts, depIdx, cfgFiles, loopVars, call>>

\* if (!existsSync(TESTDIR)) mkdirSync(TESTDIR)
MakeTestDir ==
  /\ pc = "testdir"
  /\ testDir' = TRUE
  /\ pc' = "prompts"
  /\ UNCHANGED <<fatal, basePrompts, depIdx, cfgFiles, loopVars, call>>

\* the basePrompts literal: each template scans the project; readdirSync
\* throws when the project root cannot be read, which ends the process
BuildBasePrompts ==
  /\ pc = "prompts"
  /\ \E readable \in BOOLEAN :
       IF readable
         THEN /\ basePrompts' = [f \in Frameworks |-> BasePrompt(f, getProjectContext)]
              /\ pc' = "install"
              /\ fatal' = fatal
         ELSE /\ basePrompts' = basePrompts
              /\ pc' = "aborted"
              /\ fatal' = "scan"
  /\ UNCHANGED <<testDir, depIdx, cfgFiles, loopVars, call>>

\* installDependencies: one npm install per entry; a failure is logged only
InstallDependency ==
  /\ pc = "install"
  /\ depIdx < Len(dependencies)
  /\ \E ok \in BOOLEAN :
       /\ depIdx' = depIdx + 1
       /\ pc' = IF depIdx + 1 = Len(dependencies) THEN "tsconfig" ELSE "install"
  /\ UNCHANGED <<fatal, testDir, basePrompts, cfgFiles, loopVars, call>>

createTsConfig ==
  /\ pc = "tsconfig"
  /\ cfgFiles' = cfgFiles \cup {"tsconfig.json"}
  /\ pc' = "mocharc"
  /\ UNCHANGED <<fatal, testDir, basePrompts, depIdx, loopVars, call>>

createMochaConfig ==
  /\ pc = "mocharc"
  /\ cfgFiles' = cfgFiles \cup {".mocharc.json"}
  /\ pc' = "driver"
  /\ cur' = 1
  /\ UNCHANGED <<fatal, testDir, basePrompts, depIdx, loopState, attempt, success,
                 lastError, result, code, pending, files, genCount, writeCount, execCount,
                 succAt, call>>

----------------------------------------------------------------------------
(* Driver and repair loop: generateAll, generateAndDebug *)

\* generateAll with its last two calls exchanged
generateAllCallsSwapped == <<"PLAYWRIGHT", "SELENIUM", "TESTCAFE">>

\* the calls of generateAll, in order
generateAllCalls == <<"PLAYWRIGHT", "TESTCAFE", "SELENIUM">>

\* a loop condition that is off by one
LoopGuardOffByOne(att, succ) == att <= MAX_ATTEMPTS /\ ~succ

\* a loop condition that forgets the success flag
LoopGuardIgnoresSuccess(att, succ) == att < MAX_ATTEMPTS

\* while (attempt < MAX_ATTEMPTS && !success)
LoopGuard(att, succ) == att < MAX_ATTEMPTS /\ ~succ

\* a write that keeps a file that is already there
WriteOutputIfAbsent(old, script) == IF old = NoFile THEN script ELSE old

\* writeFileSync(outputPath, code): the new content of the file
WriteOutput(old, script) == script

\* a loop whose caller does not wait for it: generateAll goes on to its next
\* call while the request of this loop is still awaited
LoopHeadNotAwaited(f, att, succ, err) ==
  IF LoopGuard(att, succ)
    THEN /\ pending' = Request(f, PromptText(basePrompts[f], err))
         /\ genCount' = [genCount EXCEPT ![f] = @ + 1]
         /\ loopState' = [loopState EXCEPT ![f] = "Generating"]
         /\ pc' = "driver"
         /\ cur' = cur + 1
    ELSE /\ pending' = None
         /\ genCount' = genCount
         /\ loopState' = [loopState EXCEPT
                            ![f] = IF succ THEN "Succeeded" ELSE "ExhaustedAttempts"]
         /\ pc' = "driver"
         /\ cur' = cur + 1

\* a loop that builds its prompt from a lastError shared by all calls, read
\* before this iteration assigns it
LoopHeadSharedError(f, att, succ, err) ==
  IF LoopGuard(att, succ)
    THEN /\ pending' = Request(f, PromptText(basePrompts[f], lastError))
         /\ genCount' = [genCount EXCEPT ![f] = @ + 1]
         /\ loopState' = [loopState EXCEPT ![f] = "Generating"]
         /\ pc' = "generating"
         /\ cur' = cur
    ELSE /\ pending' = None
         /\ genCount' = genCount
         /\ loopState' = [loopState EXCEPT
                            ![f] = IF succ THEN "Succeeded" ELSE "ExhaustedAttempts"]
         /\ pc' = "driver"
         /\ cur' = cur + 1

\* the head of the while loop for framework f with the given locals: either
\* the next iteration starts (the request is sent and awaited), or the loop
\* is left and generateAndDebug returns to generateAll
LoopHead(f, att, succ, err) ==
  IF LoopGuard(att, succ)
    THEN /\ pending' = Request(f, PromptText(basePrompts[f], err))
         /\ genCount' = [genCount EXCEPT ![f] = @ + 1]
         /\ loopState' = [loopState EXCEPT ![f] = "Generating"]
         /\ pc' = "generating"
         /\ cur' = cur
    ELSE /\ pending' = None
         /\ genCount' = genCount
         /\ loopState' = [loopState EXCEPT
                            ![f] = IF succ THEN "Succeeded" ELSE "ExhaustedAttempts"]
         /\ pc' = "driver"
         /\ cur' = cur + 1

\* await generateAndDebug(f): the locals are initialised and the loop entered
CallGenerateAndDebug ==
  /\ pc = "driver"
  /\ cur \in 1..Len(generateAllCalls)
  /\ attempt' = 0
  /\ success' = FALSE
  /\ lastError' = << >>
  /\ result' = None
  /\ LoopHead(generateAllCalls[cur], 0, FALSE, << >>)
  /\ UNCHANGED <<fatal, testDir, basePrompts, depIdx, cfgFiles, code, files,
                 writeCount, execCount, succAt, call>>

\* the generative service answers: the script is synthesized, written to the
\* output file, and the framework's command is started
GenResolve ==
  /\ pc = "generating"
  /\ \E parts \in Responses :
       LET f == generateAllCalls[cur]
           script == Synthesize(parts)
       IN /\ code' = [code EXCEPT ![f] = script]
          /\ files' = [files EXCEPT ![OUTPUT_FILES[f]] = WriteOutput(@, script)]
          /\ writeCount' = [writeCount EXCEPT ![f] = @ + 1]
          /\ pending' = [kind |-> "exec", framework |-> f,
                         command |-> Command(f, OUTPUT_FILES[f])]
          /\ execCount' = [execCount EXCEPT ![f] = @ + 1]
          /\ loopState' = [loopState EXCEPT ![f] = "Executing"]
          /\ pc' = "executing"
  /\ UNCHANGED <<fatal, testDir, basePrompts, depIdx, cfgFiles, cur, attempt,
                 success, lastError, result, genCount, succAt, call>>

\* the generative service call rejects: nothing catches the rejection, it
\* leaves generateAndDebug, generateAll and the main function
GenReject ==
  /\ pc = "generating"
  /\ pending' = None
  /\ loopState' = [loopState EXCEPT ![generateAllCalls[cur]] = "Thrown"]
  /\ pc' = "crashed"
  /\ UNCHANGED <<fatal, testDir, basePrompts, depIdx, cfgFiles, cur, attempt,
                 success, lastError, result, code, files, genCount, writeCount, execCount,
                 succAt, call>>

\* the external run ends: the result is recorded, the counter incremented and
\* the loop condition evaluated again
ExecReturn ==
  /\ pc = "executing"
  /\ \E o \in ProcOutcomes :
       LET f == generateAllCalls[cur]
           res == executeTestScript(f, OUTPUT_FILES[f], o)
       IN IF res.threw
            THEN /\ pc' = "crashed"
                 /\ pending' = None
                 /\ loopState' = [loopState EXCEPT ![f] = "Thrown"]
                 /\ UNCHANGED <<cur, attempt, success, lastError, result, genCount,
                                succAt>>
            ELSE /\ result' = [success |-> res.success, output |-> res.output]
                 /\ success' = res.success
                 /\ lastError' = res.output
                 /\ attempt' = attempt + 1
                 /\ succAt' = IF res.success
                                THEN [succAt EXCEPT ![f] = attempt + 1]
                                ELSE succAt
                 /\ LoopHead(f, attempt + 1, res.success, res.output)
  /\ UNCHANGED <<fatal, testDir, basePrompts, depIdx, cfgFiles, code, files,
                 writeCount, execCount, call>>

\* generateAll has made its last call: the main function ends
Finish ==
  /\ pc = "driver"
  /\ cur = Len(generateAllCalls) + 1
  /\ pc' = "done"
  /\ UNCHANGED <<fatal, testDir, basePrompts, depIdx, cfgFiles, loopVars, call>>

Next ==
  \/ LoadEnv
  \/ CheckApiKey
  \/ MakeTestDir
  \/ BuildBasePrompts
  \/ InstallDependency
  \/ createTsConfig
  \/ createMochaConfig
  \/ CallGenerateAndDebug
  \/ GenResolve
  \/ GenReject
  \/ ExecReturn
  \/ Finish

Spec == Init /\ [][Next]_vars

\* every external call returns and the event loop runs every continuation
FairSpec == Spec /\ WF_vars(Next)

----------------------------------------------------------------------------
(* The script runner called on its own, with any identifier and any path *)

RunnerCall ==
  /\ \E fw \in Frameworks \cup {"APPIUM"}, path \in FilePaths, o \in ProcOutcomes :
       call' = [kind |-> "executeTestScript", framework |-> fw, filePath |-> path,
                outcome |-> o, error |-> TryRun(fw, path, o),
                result |-> executeTestScript(fw, path, o)]
  /\ UNCHANGED <<pc, fatal, testDir, basePrompts, depIdx, cfgFiles, loopVars>>

RunnerSpec == Init /\ [][RunnerCall]_vars

----------------------------------------------------------------------------
(* The script synthesizer on its own, for any response of bounded size *)

\* lines a part may hold: a bare fence, a code line, a line with a fence in it
LinePool == { <<Fence>>, <<"test('a')">>, <<"run", Fence, "ts">> }

TextPool == UNION { [1..n -> LinePool] : n \in 1..MaxLines }

PartPool == {TextPart(t) : t \in TextPool} \cup {CodePart(t) : t \in TextPool}
              \cup {OtherPart}

ResponseInputs == UNION { [1..n -> PartPool] : n \in 0..MaxParts }

\* a fresh checkout: no tests directory and no configuration file yet
FreshInit ==
  /\ pc = "dotenv"
  /\ fatal = "none"
  /\ testDir = FALSE
  /\ files = [p \in FilePaths |-> NoFile]
  /\ cfgFiles = {}
  /\ basePrompts = [f \in Frameworks |-> << >>]
  /\ depIdx = 0
  /\ cur = 0
  /\ loopState = [f \in Frameworks |-> "Idle"]
  /\ attempt = 0
  /\ success = FALSE
  /\ lastError = << >>
  /\ result = None
  /\ code = [f \in Frameworks |-> << >>]
  /\ pending = None
  /\ genCount = [f \in Frameworks |-> 0]
  /\ writeCount = [f \in Frameworks |-> 0]
  /\ execCount = [f \in Frameworks |-> 0]
  /\ succAt = [f \in Frameworks |-> 0]
  /\ call = None

SynthCall ==
  /\ call = None
  /\ \E parts \in ResponseInputs :
       call' = [kind |-> "generateTestScript", parts |-> parts,
                output |-> Synthesize(parts)]
  /\ UNCHANGED <<pc, fatal, testDir, basePrompts, depIdx, cfgFiles, loopVars>>

SynthSpec == FreshInit /\ [][SynthCall]_vars

----------------------------------------------------------------------------
(* The project context scanner on its own, for any tree of bounded size *)

Dir(n, its) == [name |-> n, kind |-> "dir", items |-> its]
\* an entry that is neither a file nor a directory (a symbolic link)
Other(n) == [name |-> n, kind |-> "other"]

\* names a directory may bear, and names a file may bear
DirNames == {"node_modules", ".git", "src", "a.ts"}
FileNames == {"a.ts", "b.js", "notes.md", "node_modules"}

Names(items) == {items[i].name : i \in 1..Len(items)}

\* the listings of exactly n entries in all, names distinct within a directory
RECURSIVE ListingsOf(_), ItemsOf(_)
ListingsOf(n) ==
  IF n = 0 THEN {<< >>}
  ELSE UNION { LET firsts == ItemsOf(k)
                   rests == ListingsOf(n - k)
               IN { <<p[1]>> \o p[2] :
                      p \in {q \in firsts \X rests : q[1].name \notin Names(q[2])} }
               : k \in 1..n }
\* the entries that hold exactly k entries, themselves included
ItemsOf(k) ==
  (IF k = 1 THEN {File(n) : n \in FileNames} \cup {Other("b.js")} ELSE {})
    \cup {Dir(n, its) : n \in DirNames, its \in ListingsOf(k - 1)}

TreeInputs == UNION { ListingsOf(n) : n \in 0..MaxNodes }

ScanCall ==
  /\ call = None
  /\ \E tree \in TreeInputs :
       call' = [kind |-> "getProjectContext", tree |-> tree,
                manifest |-> readDirRecursive(<<"root">>, tree)]
  /\ UNCHANGED <<pc, fatal, testDir, basePrompts, depIdx, cfgFiles, loopVars>>

ScanSpec == FreshInit /\ [][ScanCall]_vars

----------------------------------------------------------------------------
(* Properties *)

Terminal == {"Succeeded", "ExhaustedAttempts"}

\* C1: one invocation of the repair loop runs the script at most MAX_ATTEMPTS
\* times, whatever the runs return: no framework sees a fourth execution.
C1_AtMostMaxExecutions == \A f \in Frameworks : execCount[f] <= MAX_ATTEMPTS

C1_Witness ==
  \E f \in Frameworks :
    loopState[f] = "ExhaustedAttempts" /\ execCount[f] = MAX_ATTEMPTS

\* C2: once the execution of attempt k has succeeded, the loop of that
\* framework is in Succeeded and has issued exactly k generation requests,
\* k file writes and k executions, in this and in every later state.
C2_SuccessStopsLoop ==
  \A f \in Frameworks :
    succAt[f] > 0 =>
      /\ loopState[f] = "Succeeded"
      /\ succAt[f] \in 1..MAX_ATTEMPTS
      /\ genCount[f] = succAt[f]
      /\ writeCount[f] = succAt[f]
      /\ execCount[f] = succAt[f]

C2_Witness == succAt["PLAYWRIGHT"] = 2 /\ pc = "done"

\* C3: the prompt of every attempt after the first contains, line for line,
\* the error text the execution of the attempt before it returned.
C3_PromptCarriesError ==
  (pc = "generating" /\ attempt >= 1) =>
    /\ lastError # << >>
    /\ Contains(pending.contents[1], lastError)

C3_Witness ==
  /\ pc = "generating"
  /\ attempt = 1
  /\ lastError = << <<"Timeout 30000ms exceeded">> >>
  /\ Contains(pending.contents[1], << <<"Timeout 30000ms exceeded">> >>)

\* C4: when the loop of a framework has ended in Succeeded or
\* ExhaustedAttempts, its output file exists and holds the script generated
\* in the last attempt of that loop.
C4_FileIsLastScript ==
  \A f \in Frameworks :
    loopState[f] \in Terminal =>
      files[OUTPUT_FILES[f]] # NoFile /\ files[OUTPUT_FILES[f]] = code[f]

C4_Witness ==
  /\ loopState["PLAYWRIGHT"] = "ExhaustedAttempts"
  /\ writeCount["PLAYWRIGHT"] = MAX_ATTEMPTS
  /\ files[OUTPUT_FILES["PLAYWRIGHT"]] = Synthesize(ResponsePool[2])

\* C5: no error of an attempt, a rejected generation request included, is
\* thrown past generateAndDebug.
C5_NoErrorEscapes == \A f \in Frameworks : loopState[f] # "Thrown"

\* C6: when the driver has stopped, the loop of each of the three frameworks
\* has been entered, whatever happened to the frameworks before it.
C6_EveryFrameworkRuns ==
  pc \in {"done", "crashed"} =>
    \A f \in Frameworks : loopState[f] # "Idle" /\ genCount[f] >= 1

\* C7 as stated: when the SELENIUM loop ends in exhaustion the TESTCAFE loop
\* has not run yet, and the next thing the driver does is start it.
C7_TestcafeAfterSelenium ==
  [][ /\ (loopState["SELENIUM"] = "Executing"
            /\ loopState'["SELENIUM"] = "ExhaustedAttempts")
          => loopState'["TESTCAFE"] = "Idle"
      /\ (loopState["SELENIUM"] = "ExhaustedAttempts"
            /\ loopState["TESTCAFE"] = "Idle")
          => loopState'["TESTCAFE"] = "Generating" ]_vars

\* C7 amended: when the TESTCAFE loop ends in exhaustion the SELENIUM loop
\* has not run yet, and the next thing the driver does is start it.
C7_SeleniumAfterTestcafe ==
  [][ /\ (loopState["TESTCAFE"] = "Executing"
            /\ loopState'["TESTCAFE"] = "ExhaustedAttempts")
          => loopState'["SELENIUM"] = "Idle"
      /\ (loopState["TESTCAFE"] = "ExhaustedAttempts"
            /\ loopState["SELENIUM"] = "Idle")
          => loopState'["SELENIUM"] = "Generating" ]_vars

C7_Witness ==
  /\ loopState["TESTCAFE"] = "ExhaustedAttempts"
  /\ execCount["TESTCAFE"] = MAX_ATTEMPTS
  /\ loopState["SELENIUM"] = "Generating"

\* C8: the driver comes to rest only when the loop of every framework has
\* reached Succeeded or ExhaustedAttempts.
C8_StopsOnlyWhenAllTerminal ==
  (pc \notin {"exited", "aborted"} /\ ~ENABLED Next) =>
    \A f \in Frameworks : loopState[f] \in Terminal

\* C9: executeTestScript returns a result and never throws; the result is a
\* success carrying standard output exactly when a known framework's process
\* exits zero, and otherwise a failure carrying standard error or, when that
\* is empty, the message of the exception.
C9_RunnerResult ==
  call.kind = "executeTestScript" =>
    LET o == call.outcome
        r == call.result
        ok == /\ call.framework \in Frameworks
              /\ o.kind = "exit"
              /\ o.exitCode = 0
    IN /\ ~r.threw
       /\ r.success = ok
       /\ ok => r.output = o.stdout
       /\ ~ok => /\ call.error.message # << >>
                 /\ r.output = IF call.error.stderr # << >>
                                 THEN call.error.stderr
                                 ELSE call.error.message
       /\ (~ok /\ call.framework \in Frameworks /\ o.kind = "exit")
            => call.error.stderr = o.stderr

C9_Witness ==
  /\ call.kind = "executeTestScript"
  /\ call.framework = "SELENIUM"
  /\ call.outcome.kind = "exit"
  /\ call.outcome.exitCode = 2
  /\ call.outcome.stderr = << >>
  /\ ~call.result.success
  /\ call.result.output = call.error.message

\* C10: after a fatal start-up condition the process has stopped for good
\* and has issued no generation request, no write of an output file and no
\* execution.
C10_StartupFailureStopsAll ==
  fatal # "none" =>
    /\ pc \in {"exited", "aborted"}
    /\ pending = None
    /\ \A f \in Frameworks :
         genCount[f] = 0 /\ writeCount[f] = 0 /\ execCount[f] = 0
    /\ ~ENABLED Next

C10_Witness == fatal = "scan" /\ pc = "aborted" /\ testDir

\* the lines of a text that hold no fence, in order
RECURSIVE WithoutFenceLines(_)
WithoutFenceLines(text) ==
  IF text = << >> THEN << >>
  ELSE IF \E i \in 1..Len(Head(text)) : Head(text)[i] = Fence
    THEN WithoutFenceLines(Tail(text))
    ELSE <<Head(text)>> \o WithoutFenceLines(Tail(text))

\* what the claim retains of one part; every retained text ends with a
\* newline, so a text of fence lines only leaves one empty line
Retained(part) ==
  IF part.text # << >>
    THEN IF WithoutFenceLines(part.text) = << >>
           THEN <<EmptyLine>> ELSE WithoutFenceLines(part.text)
    ELSE part.executableCode

RECURSIVE RetainedAll(_)
RetainedAll(parts) ==
  IF parts = << >> THEN << >> ELSE Retained(Head(parts)) \o RetainedAll(Tail(parts))

\* C11: the synthesized script is the provenance comment (and the empty line
\* after it) followed, in response order, by each text part without its
\* fence lines and each executable-code part verbatim; a part of neither
\* shape adds nothing and an empty response gives the provenance comment alone.
C11_SynthesizedScript ==
  call.kind = "generateTestScript" =>
    /\ call.output = <<Provenance, EmptyLine>> \o RetainedAll(call.parts)
    /\ call.parts = << >> => call.output = <<Provenance, EmptyLine>>

C11_Witness ==
  /\ call.kind = "generateTestScript"
  /\ call.parts = << TextPart(<< <<Fence>>, <<"test('a')">> >>),
                     CodePart(<< <<"run", Fence, "ts">> >>) >>
  /\ call.output = <<Provenance, EmptyLine, <<"test('a')">>, <<"run", Fence, "ts">> >>

\* every file and directory beneath dir, with its path, and whether it lies
\* beneath a directory named node_modules or .git
RECURSIVE Nodes(_, _, _)
Nodes(dir, items, beneathExcluded) ==
  UNION { LET it == items[i] IN
            {[path |-> dir \o <<it.name>>, name |-> it.name, kind |-> it.kind,
              hidden |-> beneathExcluded]}
            \cup (IF it.kind = "dir"
                    THEN Nodes(dir \o <<it.name>>, it.items,
                               beneathExcluded \/ it.name \in {"node_modules", ".git"})
                    ELSE {})
          : i \in 1..Len(items) }

\* C12: the manifest has one line for every directory not named node_modules
\* or .git and for every file ending in .ts or .js, unless it lies beneath a
\* directory so named, and no other line.
C12_ManifestEntries ==
  call.kind = "getProjectContext" =>
    LET nodes == Nodes(<<"root">>, call.tree, FALSE)
        m == call.manifest
        listed(n) ==
          /\ ~n.hidden
          /\ \/ n.kind = "dir" /\ n.name \notin {"node_modules", ".git"}
             \/ n.kind = "file" /\ n.name \in {"a.ts", "b.js"}
        line(n) == <<n.kind>> \o n.path
    IN /\ \A n \in nodes : listed(n) <=> \E i \in 1..Len(m) : m[i] = line(n)
       /\ \A i \in 1..Len(m) : \E n \in nodes : listed(n) /\ m[i] = line(n)
       /\ \A i, j \in 1..Len(m) : m[i] = m[j] => i = j

C12_Witness ==
  /\ call.kind = "getProjectContext"
  /\ call.tree = << Dir("node_modules", <<File("a.ts")>>), File("a.ts") >>
  /\ call.manifest = << <<"file", "root", "a.ts">> >>

\* the loop of framework f has an attempt under way
InFlight(f) == loopState[f] \in {"Generating", "Executing"}

\* C13: at most one framework has an attempt in flight, the awaited call
\* belongs to it, and the loop of a framework has not started unless the loop
\* of the framework called before it has terminated.
C13_OneLoopAtATime ==
  /\ \A f, g \in Frameworks : InFlight(f) /\ InFlight(g) => f = g
  /\ pending # None => InFlight(pending.framework)
  /\ \A i \in 2..Len(generateAllCalls) :
       loopState[generateAllCalls[i]] # "Idle"
         => loopState[generateAllCalls[i - 1]] \in Terminal

C13_Witness ==
  /\ loopState["PLAYWRIGHT"] = "ExhaustedAttempts"
  /\ loopState["TESTCAFE"] = "Executing"
  /\ loopState["SELENIUM"] = "Idle"
  /\ pending.kind = "exec"
  /\ pending.framework = "TESTCAFE"

\* C14: every execution is issued in the step that overwrites the output file
\* with the script of the generation request of the same attempt, the k-th
\* execution after the k-th request; so writes and executions are always
\* equal in number, requests are one ahead exactly while a request is
\* awaited, and all three are equal when the loop has terminated.
C14_AttemptIsFullCycle ==
  /\ [](\A f \in Frameworks :
          /\ writeCount[f] = execCount[f]
          /\ genCount[f] = execCount[f] + (IF loopState[f] \in {"Generating", "Thrown"}
                                             THEN 1 ELSE 0)
          /\ loopState[f] = "Executing" => files[OUTPUT_FILES[f]] = code[f]
          /\ loopState[f] \in Terminal =>
               genCount[f] = writeCount[f] /\ writeCount[f] = execCount[f])
  /\ [][\A f \in Frameworks :
          execCount'[f] # execCount[f] =>
            /\ loopState[f] = "Generating"
            /\ pending.kind = "generateContent"
            /\ execCount'[f] = execCount[f] + 1
            /\ writeCount'[f] = writeCount[f] + 1
            /\ genCount'[f] = genCount[f]
            /\ genCount[f] = execCount'[f]
            /\ files'[OUTPUT_FILES[f]] = code'[f]
            /\ pending'.kind = "exec"]_vars

C14_Witness ==
  /\ loopState["TESTCAFE"] = "ExhaustedAttempts"
  /\ genCount["TESTCAFE"] = MAX_ATTEMPTS
  /\ writeCount["TESTCAFE"] = MAX_ATTEMPTS
  /\ execCount["TESTCAFE"] = MAX_ATTEMPTS

\* the step in which the awaited run of framework f returns
RunReturns(f) == loopState[f] = "Executing" /\ loopState'[f] # "Executing"

\* C15: a run that fails with the counter, once incremented, at MAX_ATTEMPTS
\* ends the loop in ExhaustedAttempts, and nothing else does; the error then
\* held for the report is the output of that last run. A run that fails with
\* the counter still below MAX_ATTEMPTS leads to Generating with lastError set
\* to its output. A terminated loop is Succeeded exactly when a run
\* succeeded, and ExhaustedAttempts exactly when all MAX_ATTEMPTS runs failed.
C15_ExhaustionRule ==
  /\ [](\A f \in Frameworks :
          /\ loopState[f] = "Succeeded" <=> succAt[f] > 0
          /\ loopState[f] = "ExhaustedAttempts" <=>
               (execCount[f] = MAX_ATTEMPTS /\ succAt[f] = 0
                  /\ loopState[f] # "Executing"))
  /\ [][\A f \in Frameworks :
          /\ RunReturns(f) =>
               /\ loopState'[f] = "ExhaustedAttempts" <=>
                    (~result'.success /\ attempt' = MAX_ATTEMPTS)
               /\ loopState'[f] = "Generating" <=>
                    (~result'.success /\ attempt' < MAX_ATTEMPTS)
               /\ loopState'[f] = "Succeeded" <=> result'.success
               /\ ~result'.success => lastError' = result'.output
          /\ (loopState[f] # "ExhaustedAttempts"
                /\ loopState'[f] = "ExhaustedAttempts") => RunReturns(f)]_vars

C15_Witness ==
  /\ loopState["PLAYWRIGHT"] = "ExhaustedAttempts"
  /\ pc = "driver"
  /\ cur = 2
  /\ attempt = MAX_ATTEMPTS
  /\ ~result.success
  /\ lastError = result.output
  /\ lastError = ErrorPool[2]

\* C16: the counter is 0 when a loop is entered, whatever the loop before
\* left in it, grows by exactly one when a run returns and at no other time,
\* stays within 0..MAX_ATTEMPTS, counts the attempts completed so far, and
\* at termination equals the number of attempts of that loop.
C16_AttemptCounter ==
  /\ [](/\ attempt \in 0..MAX_ATTEMPTS
        /\ \A f \in Frameworks :
             /\ loopState[f] = "Generating" => attempt = execCount[f]
             /\ loopState[f] = "Executing" => attempt = execCount[f] - 1)
  /\ [][\A f \in Frameworks :
          /\ (loopState[f] = "Idle" /\ loopState'[f] # "Idle") => attempt' = 0
          /\ RunReturns(f) =>
               /\ attempt' = attempt + 1
               /\ loopState'[f] \in Terminal =>
                    attempt' = execCount'[f] /\ attempt' = genCount'[f]
          /\ (\A g \in Frameworks : loopState[g] = loopState'[g])
               => attempt' = attempt]_vars

C16_Witness ==
  /\ loopState["PLAYWRIGHT"] = "ExhaustedAttempts"
  /\ execCount["PLAYWRIGHT"] = MAX_ATTEMPTS
  /\ loopState["TESTCAFE"] = "Generating"
  /\ attempt = 0

\* C17: a step changes the output file of a framework only by the one write of
\* an attempt of that framework's own loop (the k-th write in the k-th
\* attempt), and leaves the output files of the other frameworks as they were.
C17_OnlyOwnFileWritten ==
  [][\A f \in Frameworks :
       (files'[OUTPUT_FILES[f]] # files[OUTPUT_FILES[f]]
          \/ writeCount'[f] # writeCount[f]) =>
         /\ loopState[f] = "Generating"
         /\ loopState'[f] = "Executing"
         /\ writeCount'[f] = writeCount[f] + 1
         /\ writeCount'[f] = genCount[f]
         /\ \A g \in Frameworks \ {f} :
              /\ files'[OUTPUT_FILES[g]] = files[OUTPUT_FILES[g]]
              /\ writeCount'[g] = writeCount[g]]_vars

C17_Witness ==
  /\ loopState["TESTCAFE"] = "Executing"
  /\ writeCount["TESTCAFE"] = 2
  /\ files[OUTPUT_FILES["TESTCAFE"]] = Synthesize(ResponsePool[1])
  /\ files[OUTPUT_FILES["PLAYWRIGHT"]] = Synthesize(ResponsePool[2])
  /\ files[OUTPUT_FILES["SELENIUM"]] = StaleScript

\* C18: the prompt of the awaited request is the base template of the
\* framework of the running loop, alone in the first attempt of that loop and
\* otherwise followed by the suffix that carries the output of the run of the
\* attempt just before, and nothing else.
C18_PromptDependsOnLastRunOnly ==
  pc = "generating" =>
    LET f == generateAllCalls[cur]
        prompt == pending.contents[1]
    IN /\ pending.framework = f
       /\ basePrompts[f] = BasePrompt(f, getProjectContext)
       /\ attempt = 0 => prompt = basePrompts[f]
       /\ attempt >= 1 =>
            prompt = basePrompts[f]
                       \o << EmptyLine,
                             <<"The previous attempt failed with the following error:">> >>
                       \o result.output
                       \o << <<"Please correct the code and regenerate.">> >>

C18_Witness ==
  /\ pc = "generating"
  /\ loopState["PLAYWRIGHT"] = "ExhaustedAttempts"
  /\ loopState["TESTCAFE"] = "Generating"
  /\ attempt = 0
  /\ pending.contents[1] = basePrompts["TESTCAFE"]

====
